---- MODULE Spec2Model ----
(***************************************************************************)
(* Model of the server entry point src/server/index.ts: the storage        *)
(* bootstrap (async IIFE), the admin-account timer callback, startServer   *)
(* and its continuation, the request logging middleware and the process    *)
(* signal handlers; and of the server-monitoring page of                   *)
(* src/unnamed/part_000: its configuration form, its two mutations and its *)
(* metrics query.  Every action is one synchronous run of JavaScript       *)
(* between two suspension points (await, timer, event).                    *)
(***************************************************************************)
EXTENDS Integers, Sequences, FiniteSets, TLC

VARIABLES
    envUrl,                 \* process.env.DATABASE_URL
    loggerThrows,           \* TRUE when every call of externalLogger throws
    bootPc,                 \* position of the bootstrap IIFE
    databaseConnected,      \* line 65, read before the delay
    freshConnectionStatus,  \* line 75, read after the delay
    freshDb,                \* line 75, the connection handle or null
    actualConnectionVerified,
    testResult,             \* line 82: what the direct probe returned
    vmTable,                \* outcome of the vm_monitoring probe
    usingDatabase,          \* line 69
    callLog,                \* external calls issued so far, in order
    failed,                 \* external calls that threw
    binding,                \* storage[name]: the backend each operation is bound to
    memUsers,               \* user records of the in-memory backend
    dbUsers,                \* user records of the durable backend
    adminPc,                \* position of the admin timer callback
    adminRuns,              \* number of times the admin callback has started
    adminExists,            \* result of storage.getUserByUsername("admin")
    adminServedBy,          \* backends that served the callback's storage calls
    adminCreateArg,         \* argument of the callback's createUser call
    adminLabel,             \* storage kind printed by the callback
    escaped,                \* origins of uncaught errors / unhandled rejections
    sysLog,                 \* entries written by externalLogger
    srvPc,                  \* position of startServer and its continuation
    listening,              \* server.listen has been called
    heartbeat,              \* the heartbeat interval timer is active
    handlers,               \* process.on handlers are registered
    reqCount,               \* requests handled so far
    inflight,               \* the request between the middleware and 'finish'
    lastLogLine,            \* the last line passed to log(), as its parts
    lineCount,              \* calls of log() by the middleware
    apiCalls,               \* calls of externalLogger.logApiRequest
    apiFinished,            \* finished requests whose path starts with /api
    alive,                  \* the process: "running", "crashed" or "killed"
    form,                   \* the live values of the configuration form
    savedConfig,            \* localStorage item 'zabbix-server-config'
    isConfigured,           \* part_000 line 87
    showSettings,           \* part_000 line 88
    isLoading,              \* part_000 line 89
    testConnectionMutation, \* the request body of a pending test, or << >>
    saveConfigMutation,     \* status and request body of the save mutation
    queryPc,                \* state of the metrics query
    failureCount,           \* failed attempts of the fetch in progress
    fetchError,             \* the error the query surfaced, or << >>
    chatProps,              \* floating-chat.tsx: props of the last render
    isOpen,                 \* floating-chat.tsx line 25
    isLoaded,               \* floating-chat.tsx line 26
    scriptPc,               \* the vendor script element: none, loading, loaded, failed
    chatContainer,          \* chatContainerRef.current: << >> or << its children >>
    effectPending           \* the effect of lines 47-64 is due after a commit

vars == << envUrl, loggerThrows, bootPc, databaseConnected,
           freshConnectionStatus, freshDb, actualConnectionVerified,
           vmTable, testResult,
           usingDatabase, callLog, failed, binding, memUsers, dbUsers, adminPc,
           adminRuns, adminExists, adminServedBy, adminCreateArg, adminLabel,
           escaped, sysLog, srvPc, listening, heartbeat, handlers, reqCount,
           inflight, lastLogLine, lineCount, apiCalls, apiFinished,
           alive, form, savedConfig, isConfigured, showSettings, isLoading,
           testConnectionMutation, saveConfigMutation, queryPc, failureCount,
           fetchError, chatProps, isOpen, isLoaded, scriptPc, chatContainer,
           effectPending >>

bootVars == << bootPc, databaseConnected, freshConnectionStatus, freshDb,
               actualConnectionVerified, vmTable, testResult, usingDatabase, callLog,
               failed, binding >>
adminVars == << adminPc, adminRuns, adminExists, adminServedBy, adminCreateArg,
                adminLabel >>
srvVars == << srvPc, listening, heartbeat, handlers >>
logVars == << lastLogLine, lineCount, apiCalls >>
reqVars == << reqCount, inflight, logVars, apiFinished >>
formVars == << form, savedConfig, isConfigured, showSettings, isLoading,
              testConnectionMutation, saveConfigMutation >>
queryVars == << queryPc, failureCount, fetchError >>
pageVars == << formVars, queryVars >>
chatVars == << chatProps, isOpen, isLoaded, scriptPc, chatContainer,
               effectPending >>
serverVars == << bootVars, adminVars, srvVars, reqVars, memUsers, dbUsers,
                escaped, sysLog, alive, envUrl, loggerThrows >>
\* What lies outside the server process: its environment, the logger and
\* the browser page.
envVars == << envUrl, loggerThrows, pageVars, chatVars >>

(***************************************************************************)
(* Bounds of the model.                                                    *)
(***************************************************************************)
MaxRequests == 2

(***************************************************************************)
(* JavaScript truthiness of process.env.DATABASE_URL: an unset variable is *)
(* undefined and an empty string is falsy.                                 *)
(***************************************************************************)
EnvUrlValues == {"unset", "empty", "postgres://db"}
\* Variant of Truthy: only undefined and null are falsy.
Truthy_NotNullish(v) == v \notin {"unset", "null"}

Truthy(v) == v \notin {"unset", "empty", "null"}

(***************************************************************************)
(* The storage interface.  Both backends expose the same named operations; *)
(* DbProtoNames is Object.getOwnPropertyNames(DatabaseStorage.prototype)   *)
(* in enumeration order.                                                   *)
(***************************************************************************)
StorageOps == {"getUserByUsername", "createUser", "getAssets", "createAsset"}
DbProtoNames == << "constructor", "getUserByUsername", "createUser",
                   "getAssets", "createAsset" >>
IsFunction(name) == name \in StorageOps \cup {"constructor"}

MemBinding == [op \in StorageOps |-> "mem"]

\* Variant of RebindLoop: only the two user operations are rebound.
RebindLoop_UsersOnly(b, i, stop) ==
    IF stop = 0
    THEN [b EXCEPT !["getUserByUsername"] = "db", !["createUser"] = "db"]
    ELSE b

\* Object.getOwnPropertyNames(...).forEach(name => ...), lines 124-128.  The
\* iteration with index `stop` throws before its assignment (stop = 0: no
\* iteration throws); the assignments made before it stay.
RECURSIVE RebindLoop(_, _, _)
RebindLoop(b, i, stop) ==
    IF i > Len(DbProtoNames) \/ i = stop THEN b
    ELSE LET name == DbProtoNames[i]
         IN  IF name # "constructor" /\ IsFunction(name)
             THEN RebindLoop([b EXCEPT ![name] = "db"], i + 1, stop)
             ELSE RebindLoop(b, i + 1, stop)

\* Indices of the loop at which an iteration can throw: the iteration of
\* "constructor" reads no property (short-circuit of &&).
RebindFaults == {0} \cup {i \in 1..Len(DbProtoNames) : DbProtoNames[i] # "constructor"}

(***************************************************************************)
(* User records and the two backends' user operations.                     *)
(***************************************************************************)
Issued(call) == \E i \in 1..Len(callLog) : callLog[i] = call
TimesIssued(call) == Cardinality({i \in 1..Len(callLog) : callLog[i] = call})

FullAccess == [view |-> TRUE, edit |-> TRUE, add |-> TRUE]
NoAccess == [view |-> TRUE, edit |-> FALSE, add |-> FALSE]

\* Variant of AdminUserFields: the bitlockerKeys category is missing and
\* the admin category cannot add.
AdminUserFields_Partial ==
    [username |-> "admin", password |-> "admin123", firstName |-> "Admin",
     lastName |-> "User", email |-> "admin@example.com", isAdmin |-> TRUE,
     department |-> "IT",
     permissions |->
        [assets |-> FullAccess, components |-> FullAccess,
         accessories |-> FullAccess, consumables |-> FullAccess,
         licenses |-> FullAccess, users |-> FullAccess, reports |-> FullAccess,
         vmMonitoring |-> FullAccess, networkDiscovery |-> FullAccess,
         admin |-> [view |-> TRUE, edit |-> TRUE, add |-> FALSE]]]

\* The argument of storage.createUser, lines 160-181.
AdminUserFields ==
    [username |-> "admin", password |-> "admin123", firstName |-> "Admin",
     lastName |-> "User", email |-> "admin@example.com", isAdmin |-> TRUE,
     department |-> "IT",
     permissions |->
        [assets |-> FullAccess, components |-> FullAccess,
         accessories |-> FullAccess, consumables |-> FullAccess,
         licenses |-> FullAccess, users |-> FullAccess, reports |-> FullAccess,
         vmMonitoring |-> FullAccess, networkDiscovery |-> FullAccess,
         bitlockerKeys |-> FullAccess, admin |-> FullAccess]]

PermissionCategories == DOMAIN AdminUserFields.permissions

\* An admin account left in the database by an earlier process and edited since.
EditedAdmin ==
    [AdminUserFields EXCEPT !.password = "changed", !.isAdmin = FALSE,
                            !.permissions = [c \in PermissionCategories |-> NoAccess]]

\* A record created by a request handler.
RequestUser(name) ==
    [AdminUserFields EXCEPT !.username = name, !.password = "pw", !.isAdmin = FALSE,
                            !.permissions = [c \in PermissionCategories |-> NoAccess]]

\* getUserByUsername(username) -> User | absent: TRUE when a record is returned.
GetUserByUsername(users, name) == \E i \in 1..Len(users) : users[i].username = name

CreateUser(users, fields) == Append(users, fields)

Store(b) == IF b = "db" THEN dbUsers ELSE memUsers

CountUsers(users, name) == Cardinality({i \in 1..Len(users) : users[i].username = name})

(***************************************************************************)
(* externalLogger: every call returns, or every call throws.               *)
(***************************************************************************)
LogOutcomes == IF loggerThrows THEN {"throws"} ELSE {"ok"}
Outcomes == {"ok", "throws"}

(***************************************************************************)
(* An error that no code catches.  The handlers of lines 281-289 exist     *)
(* only once the .then callback of line 242 has run: they call logCritical *)
(* with the origin 'process' (uncaughtException) or 'promise'              *)
(* (unhandledRejection) and do not exit; logCritical is not wrapped, and   *)
(* an exception thrown by the handler ends the process.  Without handlers  *)
(* the platform default applies: an uncaught exception ends the process,   *)
(* an unhandled rejection ends it or is only reported, depending on the    *)
(* version of the runtime.                                                 *)
(***************************************************************************)
DefaultDisposition(kind) ==
    IF kind = "critical:promise" THEN {"running", "crashed"} ELSE {"crashed"}

Uncaught(origin, kind, log) ==
    /\ escaped' = escaped \cup {origin}
    /\ IF handlers
       THEN \E lg \in LogOutcomes :
              IF lg = "ok"
              THEN /\ sysLog' = log \cup {kind}
                   /\ UNCHANGED alive
              ELSE /\ sysLog' = log
                   /\ alive' = "crashed"
       ELSE /\ sysLog' = log
            /\ alive' \in DefaultDisposition(kind)

(***************************************************************************)
(* Initial state: the process before the module body runs.                 *)
(***************************************************************************)
ServerInit ==
    /\ envUrl \in EnvUrlValues
    /\ loggerThrows \in BOOLEAN
    /\ bootPc = "notStarted"
    /\ databaseConnected = FALSE
    /\ freshConnectionStatus = FALSE
    /\ freshDb = "null"
    /\ actualConnectionVerified = FALSE
    /\ testResult = "undefined"
    /\ vmTable = "none"
    /\ usingDatabase = FALSE
    /\ callLog = << >>
    /\ failed = {}
    /\ binding = MemBinding
    /\ memUsers = << >>
    /\ dbUsers \in {<< >>, << EditedAdmin >>}
    /\ adminPc = "idle"
    /\ adminRuns = 0
    /\ adminExists = FALSE
    /\ adminServedBy = {}
    /\ adminCreateArg = << >>
    /\ adminLabel = "none"
    /\ escaped = {}
    /\ sysLog = {}
    /\ srvPc = "notStarted"
    /\ listening = "idle"
    /\ heartbeat = FALSE
    /\ handlers = FALSE
    /\ reqCount = 0
    /\ inflight = << >>
    /\ lastLogLine = << >>
    /\ lineCount = 0
    /\ apiCalls = 0
    /\ apiFinished = 0
    /\ alive = "running"

(***************************************************************************)
(* The server-monitoring page, src/unnamed/part_000: the configuration     *)
(* schema, the form's default values and the state after the first render. *)
(***************************************************************************)
MinRefreshInterval == 30
MaxRefreshInterval == 600

UrlValues == {"", "https://zabbix.local/zabbix"}
UsernameValues == {"", "Admin"}
PasswordValues == {"", "zabbix"}
IntervalValues == {10, 60, 300}

\* z.string().url(): the empty string is not a URL.
IsUrl(u) == u \in UrlValues \ {""}

FormValues ==
    [url : UrlValues, username : UsernameValues, password : PasswordValues,
     apiVersion : {"2.4"}, autoRefresh : BOOLEAN,
     refreshInterval : IntervalValues]

\* zabbixConfigSchema, lines 39-46.
SchemaAccepts(c) ==
    /\ IsUrl(c.url)
    /\ c.username # ""
    /\ c.password # ""
    /\ c.refreshInterval >= MinRefreshInterval
    /\ c.refreshInterval <= MaxRefreshInterval

\* defaultValues of useForm, lines 94-101.
DefaultValues ==
    [url |-> "", username |-> "", password |-> "", apiVersion |-> "2.4",
     autoRefresh |-> TRUE, refreshInterval |-> 60]

\* The page after its first render; the browser's local storage holds no
\* configuration or one that an earlier visit saved.
PageInit ==
    /\ form = DefaultValues
    /\ savedConfig \in {<< >>} \cup {<< c >> : c \in {f \in FormValues : SchemaAccepts(f)}}
    /\ isConfigured = FALSE
    /\ showSettings = FALSE
    /\ isLoading = TRUE
    /\ testConnectionMutation = << >>
    /\ saveConfigMutation = [status |-> "idle", variables |-> << >>]
    /\ queryPc = "idle"
    /\ failureCount = 0
    /\ fetchError = << >>

(***************************************************************************)
(* The floating chat widget, floating-chat.tsx.  Of the props that reach   *)
(* the agent-chat element the window title, the width and the height are   *)
(* kept; the others are passed on the same way.                            *)
(***************************************************************************)
DefaultProps ==
    [windowTitle |-> "SRPH MIS AI Chat Bot", width |-> "400", height |-> "600",
     startOpen |-> FALSE]
PropValues ==
    [windowTitle : {"SRPH MIS AI Chat Bot", "Help"}, width : {"400", "320"},
     height : {"600", "480"}, startOpen : BOOLEAN]

\* The widget after its first render, before its effects have run.
ChatInit ==
    /\ chatProps \in PropValues
    /\ isOpen = chatProps.startOpen
    /\ isLoaded = FALSE
    /\ scriptPc = "none"
    /\ chatContainer = << >>
    /\ effectPending = FALSE

\* The server process alone: no page is open.
Init ==
    /\ ServerInit
    /\ PageInit
    /\ savedConfig = << >>
    /\ ChatInit
    /\ chatProps = DefaultProps

\* The page alone: the server process is not started.
InitMonitor ==
    /\ ServerInit
    /\ envUrl = "unset"
    /\ ~loggerThrows
    /\ dbUsers = << >>
    /\ PageInit
    /\ ChatInit
    /\ chatProps = DefaultProps

(***************************************************************************)
(* The bootstrap IIFE, lines 63-192.                                       *)
(***************************************************************************)

\* setTimeout(async () => {...}, 500), line 153.
ScheduleAdmin == adminPc' = "scheduled"

\* Variant of UseDurable: the three signals combined by AND instead of OR.
UseDurable_AllSignals(fcs, dc, acv, fdb) ==
    (fcs /\ dc /\ acv) /\ Truthy(envUrl) /\ Truthy(fdb)

\* The condition of line 102.
UseDurable(fcs, dc, acv, fdb) ==
    (fcs \/ dc \/ acv) /\ Truthy(envUrl) /\ Truthy(fdb)

\* Variant of Select: the admin timer is set at selection time, before the
\* migration and the swap.
Select_ScheduleEarly(fcs, acv, fdb, newCalled) ==
    IF UseDurable(fcs, databaseConnected, acv, fdb)
    THEN /\ bootPc' = "migrate"
         /\ callLog' = Append(newCalled, "runMigrations")
         /\ ScheduleAdmin
         /\ UNCHANGED usingDatabase
    ELSE /\ bootPc' = "done"
         /\ callLog' = newCalled
         /\ usingDatabase' = FALSE
         /\ ScheduleAdmin

\* Lines 101-150 up to the first await: either runMigrations() is called, or
\* the else branch runs and the admin timer is set.
Select(fcs, acv, fdb, newCalled) ==
    IF UseDurable(fcs, databaseConnected, acv, fdb)
    THEN /\ bootPc' = "migrate"
         /\ callLog' = Append(newCalled, "runMigrations")
         /\ UNCHANGED << usingDatabase, adminPc >>
    ELSE /\ bootPc' = "done"
         /\ callLog' = newCalled
         /\ usingDatabase' = FALSE
         /\ ScheduleAdmin

\* Variant of Main: startServer() is called and the bootstrap is not started.
Main_ServerFirst ==
    /\ alive = "running"
    /\ srvPc = "notStarted"
    /\ srvPc' = "routes"
    /\ UNCHANGED << bootVars, memUsers, dbUsers, escaped, sysLog, listening,
                    heartbeat, handlers >>
    /\ UNCHANGED << adminVars, reqVars, envVars, alive >>

\* The module body, lines 11-294: the IIFE runs up to its first await (line
\* 65), then startServer() is called and runs up to its first await (line 198).
Main ==
    /\ alive = "running"
    /\ bootPc = "notStarted"
    /\ srvPc = "notStarted"
    /\ bootPc' = "import1"
    /\ srvPc' = "routes"
    /\ UNCHANGED << databaseConnected, freshConnectionStatus, freshDb,
                    actualConnectionVerified, vmTable, testResult, usingDatabase, callLog,
                    failed, binding, memUsers, dbUsers, escaped, sysLog,
                    listening, heartbeat, handlers >>
    /\ UNCHANGED << adminVars, reqVars, envVars, alive >>

\* await import("./db"), line 65.  The import is outside every try block.
BootImportDb1 ==
    /\ alive = "running"
    /\ bootPc = "import1"
    /\ \E o \in Outcomes, dc \in BOOLEAN :
         IF o = "ok"
         THEN /\ databaseConnected' = dc
              /\ bootPc' = "delay"
              /\ UNCHANGED << failed, escaped, sysLog, alive >>
         ELSE /\ bootPc' = "rejected"
              /\ failed' = failed \cup {"import"}
              /\ Uncaught("bootstrap", "critical:promise", sysLog)
              /\ UNCHANGED databaseConnected
    /\ UNCHANGED << freshConnectionStatus, freshDb, actualConnectionVerified,
                    vmTable, testResult, usingDatabase, callLog, binding, memUsers, dbUsers >>
    /\ UNCHANGED << adminVars, srvVars, reqVars, envVars >>

\* await new Promise(resolve => setTimeout(resolve, 2000)), line 72.
BootDelay ==
    /\ alive = "running"
    /\ bootPc = "delay"
    /\ bootPc' = "import2"
    /\ UNCHANGED << databaseConnected, freshConnectionStatus, freshDb,
                    actualConnectionVerified, vmTable, testResult, usingDatabase, callLog,
                    failed, binding, memUsers, dbUsers, escaped, sysLog >>
    /\ UNCHANGED << adminVars, srvVars, reqVars, envVars, alive >>

\* Lines 75-81: the second import, then the guard of the direct probe.
BootImportDb2 ==
    /\ alive = "running"
    /\ bootPc = "import2"
    /\ \E o \in Outcomes, fcs \in BOOLEAN, fdb \in {"null", "handle"} :
         IF o = "ok"
         THEN /\ freshConnectionStatus' = fcs
              /\ freshDb' = fdb
              /\ actualConnectionVerified' = FALSE
              /\ IF Truthy(envUrl) /\ Truthy(fdb)
                 THEN /\ bootPc' = "importSql"
                      /\ UNCHANGED << callLog, usingDatabase, adminPc >>
                 ELSE Select(fcs, FALSE, fdb, callLog)
              /\ UNCHANGED << failed, escaped, sysLog, alive >>
         ELSE /\ bootPc' = "rejected"
              /\ failed' = failed \cup {"import"}
              /\ Uncaught("bootstrap", "critical:promise", sysLog)
              /\ UNCHANGED << freshConnectionStatus, freshDb,
                              actualConnectionVerified, callLog, usingDatabase,
                              adminPc >>
    /\ UNCHANGED << databaseConnected, vmTable, testResult, binding, memUsers, dbUsers >>
    /\ UNCHANGED << adminRuns, adminExists, adminServedBy, adminCreateArg, adminLabel >>
    /\ UNCHANGED << srvVars, reqVars, envVars >>

\* await import("drizzle-orm"), line 81, inside the try of line 80; on
\* success freshDb.execute(SELECT 1) is issued (line 82).
BootImportSql ==
    /\ alive = "running"
    /\ bootPc = "importSql"
    /\ \E o \in Outcomes :
         IF o = "ok"
         THEN /\ bootPc' = "probe"
              /\ callLog' = Append(callLog, "probe")
              /\ UNCHANGED << failed, actualConnectionVerified, usingDatabase, adminPc >>
         ELSE /\ failed' = failed \cup {"importSql"}
              /\ actualConnectionVerified' = FALSE
              /\ Select(freshConnectionStatus, FALSE, freshDb, callLog)
    /\ UNCHANGED << databaseConnected, freshConnectionStatus, freshDb, vmTable, testResult,
                    binding, memUsers, dbUsers, escaped, sysLog >>
    /\ UNCHANGED << adminRuns, adminExists, adminServedBy, adminCreateArg, adminLabel >>
    /\ UNCHANGED << srvVars, reqVars, envVars, alive >>

\* Line 83: testResult && testResult.rows && testResult.rows.length > 0.
ProbeResults == {"rows", "norows", "nullresult", "throws"}

\* Variant of Verified: any result object counts, its rows are not counted.
Verified_AnyResult(result) == result \in {"rows", "norows"}

Verified(result) == result = "rows"

\* The direct probe returns or throws, lines 82-99.
BootProbe ==
    /\ alive = "running"
    /\ bootPc = "probe"
    /\ \E r \in ProbeResults :
         /\ actualConnectionVerified' = Verified(r)
         /\ testResult' = IF r = "throws" THEN testResult ELSE r
         /\ failed' = IF r = "throws" THEN failed \cup {"probe"} ELSE failed
         /\ IF r # "throws" /\ Verified(r)
            THEN /\ bootPc' = "vmProbe"
                 /\ callLog' = Append(callLog, "vmProbe")
                 /\ UNCHANGED << usingDatabase, adminPc >>
            ELSE Select(freshConnectionStatus, FALSE, freshDb, callLog)
    /\ UNCHANGED << databaseConnected, freshConnectionStatus, freshDb, vmTable,
                    binding, memUsers, dbUsers, escaped, sysLog >>
    /\ UNCHANGED << adminRuns, adminExists, adminServedBy, adminCreateArg, adminLabel >>
    /\ UNCHANGED << srvVars, reqVars, envVars, alive >>

\* Variant of BootVmProbe: a failing table probe withdraws the
\* directly-verified signal before the selection.
BootVmProbe_Gates ==
    /\ alive = "running"
    /\ bootPc = "vmProbe"
    /\ \E o \in Outcomes :
         /\ vmTable' = o
         /\ actualConnectionVerified' = (o = "ok")
         /\ Select(freshConnectionStatus, o = "ok", freshDb, callLog)
    /\ UNCHANGED << databaseConnected, freshConnectionStatus, freshDb,
                    testResult, failed, binding,
                    memUsers, dbUsers, escaped, sysLog >>
    /\ UNCHANGED << adminRuns, adminExists, adminServedBy, adminCreateArg, adminLabel >>
    /\ UNCHANGED << srvVars, reqVars, envVars, alive >>

\* The vm_monitoring probe returns or throws, lines 88-93.
BootVmProbe ==
    /\ alive = "running"
    /\ bootPc = "vmProbe"
    /\ \E o \in Outcomes :
         /\ vmTable' = o
         /\ Select(freshConnectionStatus, actualConnectionVerified, freshDb, callLog)
    /\ UNCHANGED << databaseConnected, freshConnectionStatus, freshDb,
                    actualConnectionVerified, testResult, failed, binding,
                    memUsers, dbUsers, escaped, sysLog >>
    /\ UNCHANGED << adminRuns, adminExists, adminServedBy, adminCreateArg, adminLabel >>
    /\ UNCHANGED << srvVars, reqVars, envVars, alive >>

\* Variant of BootMigrate: a failed migration is logged and the
\* initialization of the durable backend goes ahead all the same.
BootMigrate_FallThrough ==
    /\ alive = "running"
    /\ bootPc = "migrate"
    /\ \E o \in Outcomes :
         /\ bootPc' = "dbinit"
         /\ callLog' = Append(callLog, "initializeDatabase")
         /\ failed' = IF o = "ok" THEN failed ELSE failed \cup {"runMigrations"}
         /\ UNCHANGED << usingDatabase, adminPc >>
    /\ UNCHANGED << databaseConnected, freshConnectionStatus, freshDb,
                    actualConnectionVerified, vmTable, testResult, binding, memUsers, dbUsers,
                    escaped, sysLog >>
    /\ UNCHANGED << adminRuns, adminExists, adminServedBy, adminCreateArg, adminLabel >>
    /\ UNCHANGED << srvVars, reqVars, envVars, alive >>

\* await runMigrations() returns or throws, lines 113 and 140-144.
BootMigrate ==
    /\ alive = "running"
    /\ bootPc = "migrate"
    /\ \E o \in Outcomes :
         IF o = "ok"
         THEN /\ bootPc' = "dbinit"
              /\ callLog' = Append(callLog, "initializeDatabase")
              /\ UNCHANGED << failed, usingDatabase, adminPc >>
         ELSE /\ bootPc' = "done"
              /\ failed' = failed \cup {"runMigrations"}
              /\ usingDatabase' = FALSE
              /\ ScheduleAdmin
              /\ UNCHANGED callLog
    /\ UNCHANGED << databaseConnected, freshConnectionStatus, freshDb,
                    actualConnectionVerified, vmTable, testResult, binding, memUsers, dbUsers,
                    escaped, sysLog >>
    /\ UNCHANGED << adminRuns, adminExists, adminServedBy, adminCreateArg, adminLabel >>
    /\ UNCHANGED << srvVars, reqVars, envVars, alive >>

\* Variant of BootDbInit: a completed rebinding copies the in-memory records
\* into the durable backend.
BootDbInit_CarryOver ==
    /\ alive = "running"
    /\ bootPc = "dbinit"
    /\ \E o \in Outcomes, c \in Outcomes, stop \in RebindFaults :
         IF o = "throws"
         THEN /\ failed' = failed \cup {"initializeDatabase"}
              /\ usingDatabase' = FALSE
              /\ UNCHANGED << callLog, binding >>
         ELSE /\ callLog' = Append(callLog, "DatabaseStorage")
              /\ IF c = "throws"
                 THEN /\ failed' = failed \cup {"DatabaseStorage"}
                      /\ usingDatabase' = FALSE
                      /\ UNCHANGED binding
                 ELSE /\ binding' = RebindLoop(binding, 1, stop)
                      /\ failed' = IF stop # 0 THEN failed \cup {"rebind"} ELSE failed
                      /\ usingDatabase' = (stop = 0)
    /\ bootPc' = "done"
    /\ ScheduleAdmin
    /\ UNCHANGED << databaseConnected, freshConnectionStatus, freshDb,
                    actualConnectionVerified, vmTable, testResult, memUsers,
                    escaped, sysLog >>
    /\ dbUsers' = IF usingDatabase' THEN dbUsers \o memUsers ELSE dbUsers
    /\ UNCHANGED << adminRuns, adminExists, adminServedBy, adminCreateArg, adminLabel >>
    /\ UNCHANGED << srvVars, reqVars, envVars, alive >>

\* await initializeDatabase() returns or throws; on return the constructor
\* and the rebinding loop run without suspension, lines 117-138.
BootDbInit ==
    /\ alive = "running"
    /\ bootPc = "dbinit"
    /\ \E o \in Outcomes, c \in Outcomes, stop \in RebindFaults :
         IF o = "throws"
         THEN /\ failed' = failed \cup {"initializeDatabase"}
              /\ usingDatabase' = FALSE
              /\ UNCHANGED << callLog, binding >>
         ELSE /\ callLog' = Append(callLog, "DatabaseStorage")
              /\ IF c = "throws"
                 THEN /\ failed' = failed \cup {"DatabaseStorage"}
                      /\ usingDatabase' = FALSE
                      /\ UNCHANGED binding
                 ELSE /\ binding' = RebindLoop(binding, 1, stop)
                      /\ failed' = IF stop # 0 THEN failed \cup {"rebind"} ELSE failed
                      /\ usingDatabase' = (stop = 0)
    /\ bootPc' = "done"
    /\ ScheduleAdmin
    /\ UNCHANGED << databaseConnected, freshConnectionStatus, freshDb,
                    actualConnectionVerified, vmTable, testResult, memUsers, dbUsers,
                    escaped, sysLog >>
    /\ UNCHANGED << adminRuns, adminExists, adminServedBy, adminCreateArg, adminLabel >>
    /\ UNCHANGED << srvVars, reqVars, envVars, alive >>

BootNext ==
    \/ Main
    \/ BootImportDb1
    \/ BootDelay
    \/ BootImportDb2
    \/ BootImportSql
    \/ BootProbe
    \/ BootVmProbe
    \/ BootMigrate
    \/ BootDbInit

(***************************************************************************)
(* The admin timer callback, lines 153-191.                                *)
(***************************************************************************)
StorageLabel == IF usingDatabase THEN "database" ELSE "memory"

\* The catch block, lines 187-190: logSystem('user_creation_error') is not
\* wrapped, so a throwing logger rejects the callback's promise.
AdminCatch(lg) ==
    IF lg = "ok"
    THEN /\ sysLog' = sysLog \cup {"user_creation_error"}
         /\ UNCHANGED << escaped, alive >>
    ELSE Uncaught("adminStep", "critical:promise", sysLog)

\* The timer fires: storage.getUserByUsername("admin") is called, line 156.
AdminTimerFire ==
    /\ alive = "running"
    /\ adminPc = "scheduled"
    /\ adminRuns' = adminRuns + 1
    /\ LET b == binding["getUserByUsername"]
       IN  /\ adminServedBy' = adminServedBy \cup {b}
           /\ \E o \in Outcomes :
                IF o = "ok"
                THEN /\ adminExists' = GetUserByUsername(Store(b), "admin")
                     /\ adminPc' = "lookupOk"
                ELSE /\ adminExists' = FALSE
                     /\ adminPc' = "lookupThrew"
    /\ callLog' = Append(callLog, "getUserByUsername")
    /\ UNCHANGED << adminCreateArg, adminLabel, memUsers, dbUsers, escaped, sysLog >>
    /\ UNCHANGED << bootPc, databaseConnected, freshConnectionStatus, freshDb,
                    actualConnectionVerified, vmTable, testResult, usingDatabase, failed, binding >>
    /\ UNCHANGED << srvVars, reqVars, envVars, alive >>

\* Variant of AdminAfterLookup: createUser is called whatever the lookup
\* returned.
AdminAfterLookup_AlwaysCreate ==
    /\ alive = "running"
    /\ adminPc = "lookupOk"
    /\ LET b == binding["createUser"]
       IN  /\ adminServedBy' = adminServedBy \cup {b}
           /\ callLog' = Append(callLog, "createUser")
           /\ adminCreateArg' = << AdminUserFields >>
           /\ adminPc' = "createOk"
           /\ IF b = "db"
              THEN /\ dbUsers' = CreateUser(dbUsers, AdminUserFields)
                   /\ UNCHANGED memUsers
              ELSE /\ memUsers' = CreateUser(memUsers, AdminUserFields)
                   /\ UNCHANGED dbUsers
    /\ UNCHANGED << adminRuns, adminExists, adminLabel, escaped, sysLog >>
    /\ UNCHANGED << bootPc, databaseConnected, freshConnectionStatus, freshDb,
                    actualConnectionVerified, vmTable, testResult, usingDatabase, failed, binding >>
    /\ UNCHANGED << srvVars, reqVars, envVars, alive >>

\* The lookup has returned: lines 158-160 and 184-186.
AdminAfterLookup ==
    /\ alive = "running"
    /\ adminPc = "lookupOk"
    /\ IF adminExists
       THEN /\ adminLabel' = StorageLabel
            /\ adminPc' = "done"
            /\ UNCHANGED << adminServedBy, adminCreateArg, memUsers, dbUsers,
                            callLog >>
       ELSE LET b == binding["createUser"]
            IN  /\ adminServedBy' = adminServedBy \cup {b}
                /\ callLog' = Append(callLog, "createUser")
                /\ adminCreateArg' = << AdminUserFields >>
                /\ UNCHANGED adminLabel
                /\ \E o \in Outcomes :
                     IF o = "ok"
                     THEN /\ adminPc' = "createOk"
                          /\ IF b = "db"
                             THEN /\ dbUsers' = CreateUser(dbUsers, AdminUserFields)
                                  /\ UNCHANGED memUsers
                             ELSE /\ memUsers' = CreateUser(memUsers, AdminUserFields)
                                  /\ UNCHANGED dbUsers
                     ELSE /\ adminPc' = "createThrew"
                          /\ UNCHANGED << memUsers, dbUsers >>
    /\ UNCHANGED << adminRuns, adminExists, escaped, sysLog >>
    /\ UNCHANGED << bootPc, databaseConnected, freshConnectionStatus, freshDb,
                    actualConnectionVerified, vmTable, testResult, usingDatabase, failed, binding >>
    /\ UNCHANGED << srvVars, reqVars, envVars, alive >>

\* createUser has returned: lines 182-183, and the catch block when
\* logSystem('user_creation') throws.
AdminAfterCreate ==
    /\ alive = "running"
    /\ adminPc = "createOk"
    /\ adminLabel' = StorageLabel
    /\ adminPc' = "done"
    /\ \E lg \in LogOutcomes, lg2 \in LogOutcomes :
         IF lg = "ok"
         THEN /\ sysLog' = sysLog \cup {"user_creation"}
              /\ UNCHANGED << escaped, alive >>
         ELSE AdminCatch(lg2)
    /\ UNCHANGED << adminRuns, adminExists, adminServedBy, adminCreateArg,
                    memUsers, dbUsers >>
    /\ UNCHANGED << bootVars, srvVars, reqVars, envVars >>

\* getUserByUsername or createUser has thrown: the catch block.
AdminAfterThrow ==
    /\ alive = "running"
    /\ adminPc \in {"lookupThrew", "createThrew"}
    /\ adminPc' = "failed"
    /\ failed' = failed \cup {IF adminPc = "lookupThrew" THEN "getUserByUsername"
                                                        ELSE "createUser"}
    /\ \E lg \in LogOutcomes : AdminCatch(lg)
    /\ UNCHANGED << adminRuns, adminExists, adminServedBy, adminCreateArg,
                    adminLabel, memUsers, dbUsers >>
    /\ UNCHANGED << bootPc, databaseConnected, freshConnectionStatus, freshDb,
                    actualConnectionVerified, vmTable, testResult, usingDatabase, callLog, binding >>
    /\ UNCHANGED << srvVars, reqVars, envVars >>

\* The admin step invoked once more after it has finished (the test of the
\* idempotence property: the callback of lines 153-191 run again).
AdminInvocations == 2

AdminAgain ==
    /\ alive = "running"
    /\ adminPc \in {"done", "failed"}
    /\ adminRuns < AdminInvocations
    /\ ScheduleAdmin
    /\ UNCHANGED << adminRuns, adminExists, adminServedBy, adminCreateArg,
                    adminLabel, memUsers, dbUsers, escaped, sysLog >>
    /\ UNCHANGED << bootVars, srvVars, reqVars, envVars, alive >>

AdminNext ==
    \/ AdminTimerFire
    \/ AdminAfterLookup
    \/ AdminAfterCreate
    \/ AdminAfterThrow

(***************************************************************************)
(* startServer and its continuation, lines 194-221 and 242-294.            *)
(***************************************************************************)

\* .catch((error) => ...), lines 291-294: logCritical is not wrapped.
StartCatch(lg, log) ==
    /\ srvPc' = "startFailed"
    /\ IF lg = "ok"
       THEN /\ sysLog' = log \cup {"critical:startup"}
            /\ UNCHANGED << escaped, alive >>
       ELSE Uncaught("startup", "critical:promise", log)

\* Lines 208-220, then the .then callback of line 242 up to line 289:
\* logSystem('server_startup'), server.listen, logLifecycle('startup'),
\* setInterval and the process.on registrations, with no suspension between.
StartTail(lg1, lg2, lg3) ==
    IF lg1 = "throws"
    THEN /\ StartCatch(lg3, sysLog)
         /\ UNCHANGED << listening, heartbeat, handlers >>
    ELSE /\ listening' = "binding"
         /\ IF lg2 = "throws"
            THEN /\ StartCatch(lg3, sysLog \cup {"server_startup"})
                 /\ UNCHANGED << heartbeat, handlers >>
            ELSE /\ srvPc' = "running"
                 /\ sysLog' = sysLog \cup {"server_startup", "startup"}
                 /\ heartbeat' = TRUE
                 /\ handlers' = TRUE
                 /\ UNCHANGED << escaped, alive >>

\* process.env.NODE_ENV, read at line 201.
NodeEnvValues == {"production", "development"}

\* await registerRoutes(app) returns or throws, line 198; in production
\* serveStatic(app) runs in the same step (line 205).
SrvRoutes ==
    /\ alive = "running"
    /\ srvPc = "routes"
    /\ \E o \in Outcomes, st \in Outcomes, lg1 \in LogOutcomes,
          lg2 \in LogOutcomes, lg3 \in LogOutcomes, nodeEnv \in NodeEnvValues :
         IF o = "throws"
         THEN /\ StartCatch(lg3, sysLog)
              /\ failed' = failed \cup {"registerRoutes"}
              /\ UNCHANGED << listening, heartbeat, handlers >>
         ELSE IF nodeEnv # "production"
              THEN /\ srvPc' = "vite"
                   /\ UNCHANGED << listening, heartbeat, handlers, sysLog, escaped,
                                   failed, alive >>
              ELSE IF st = "throws"
                   THEN /\ StartCatch(lg3, sysLog)
                        /\ failed' = failed \cup {"serveStatic"}
                        /\ UNCHANGED << listening, heartbeat, handlers >>
                   ELSE /\ StartTail(lg1, lg2, lg3)
                        /\ UNCHANGED failed
    /\ UNCHANGED << memUsers, dbUsers >>
    /\ UNCHANGED << bootPc, databaseConnected, freshConnectionStatus, freshDb,
                    actualConnectionVerified, vmTable, testResult, usingDatabase, callLog, binding >>
    /\ UNCHANGED << adminVars, reqVars, envVars >>

\* await setupVite(app, server) returns or throws, line 202.
SrvVite ==
    /\ alive = "running"
    /\ srvPc = "vite"
    /\ \E o \in Outcomes, lg1 \in LogOutcomes, lg2 \in LogOutcomes,
          lg3 \in LogOutcomes :
         IF o = "throws"
         THEN /\ StartCatch(lg3, sysLog)
              /\ failed' = failed \cup {"setupVite"}
              /\ UNCHANGED << listening, heartbeat, handlers >>
         ELSE /\ StartTail(lg1, lg2, lg3)
              /\ UNCHANGED failed
    /\ UNCHANGED << memUsers, dbUsers >>
    /\ UNCHANGED << bootPc, databaseConnected, freshConnectionStatus, freshDb,
                    actualConnectionVerified, vmTable, testResult, usingDatabase, callLog, binding >>
    /\ UNCHANGED << adminVars, reqVars, envVars >>

\* The listener of server.listen(PORT, "0.0.0.0") binds the port, or the
\* server emits 'error' in a later turn of the event loop: startServer has
\* returned by then, and no 'error' listener is registered, so the event is
\* thrown as an uncaught exception.
SrvBind ==
    /\ alive = "running"
    /\ listening = "binding"
    /\ \E o \in Outcomes :
         IF o = "ok"
         THEN /\ listening' = "accepting"
              /\ UNCHANGED << escaped, sysLog, alive >>
         ELSE /\ listening' = "bindFailed"
              /\ Uncaught("listen", "critical:process", sysLog)
    /\ UNCHANGED << srvPc, heartbeat, handlers, memUsers, dbUsers >>
    /\ UNCHANGED << bootVars, adminVars, reqVars, envVars >>

\* The heartbeat callback, lines 258-267: the logger call is wrapped.
Heartbeat ==
    /\ alive = "running"
    /\ heartbeat
    /\ \E lg \in LogOutcomes :
         sysLog' = IF lg = "ok" THEN sysLog \cup {"heartbeat"} ELSE sysLog
    /\ UNCHANGED << srvVars, escaped, memUsers, dbUsers >>
    /\ UNCHANGED << bootVars, adminVars, reqVars, envVars, alive >>

\* SIGTERM or SIGINT is delivered.  The handlers of lines 270-278 exist
\* only once the .then callback of line 242 has run; before that the
\* signal has its default action and ends the process.  In the handler
\* logLifecycle runs first and is not wrapped; clearInterval runs only
\* when it returns, and the handler does not exit.
Signal ==
    /\ alive = "running"
    /\ IF handlers
       THEN \E lg \in LogOutcomes :
              IF lg = "ok"
              THEN /\ sysLog' = sysLog \cup {"shutdown"}
                   /\ heartbeat' = FALSE
                   /\ UNCHANGED << escaped, alive >>
              ELSE /\ Uncaught("signal", "critical:process", sysLog)
                   /\ UNCHANGED heartbeat
       ELSE /\ alive' = "killed"
            /\ UNCHANGED << sysLog, heartbeat, escaped >>
    /\ UNCHANGED << srvPc, listening, handlers, memUsers, dbUsers >>
    /\ UNCHANGED << bootVars, adminVars, reqVars, envVars >>

(***************************************************************************)
(* Requests.  A route handler looks a user up and creates it when absent,  *)
(* both through the shared storage handle; when the response has been      *)
(* sent the 'finish' callback of the logging middleware runs, lines 27-58: *)
(* its logger call is wrapped.                                             *)
(***************************************************************************)
RequestNames == {"admin", "bob"}

RouteLookupCreate(name) ==
    LET bl == binding["getUserByUsername"]
        bc == binding["createUser"]
    IN  IF GetUserByUsername(Store(bl), name)
        THEN UNCHANGED << memUsers, dbUsers >>
        ELSE IF bc = "db"
             THEN /\ dbUsers' = CreateUser(dbUsers, RequestUser(name))
                  /\ UNCHANGED memUsers
             ELSE /\ memUsers' = CreateUser(memUsers, RequestUser(name))
                  /\ UNCHANGED dbUsers

(***************************************************************************)
(* The logging middleware, lines 16-61.  A log line is the sequence of its *)
(* parts; each part records how many of its characters the line holds      *)
(* (len) and how many it had (full).                                       *)
(***************************************************************************)
MaxLineLength == 80
KeptLength == 79

Methods == {"GET", "DELETE"}
MethodLength == [GET |-> 3, POST |-> 4, DELETE |-> 6]
PathHeads == {"/api", "/css"}
PathTails == {6, 70}
StatusCodes == {200, 404}
Durations == {5, 120}
JsonLengths == {0, 30}

\* path.startsWith("/api"), line 29; a path is its first four characters
\* and the number of characters that follow.
StartsWithApi(path) == path.head = "/api"
PathLength(path) == 4 + path.tail

\* The number of characters of a number in a template literal.
RECURSIVE Digits(_)
Digits(n) == IF n < 10 THEN 1 ELSE 1 + Digits(n \div 10)

Part(name, n) == [part |-> name, len |-> n, full |-> n]

\* Lines 30-33.
LogLine(req) ==
    << Part("method", MethodLength[req.method]), Part("space", 1),
       Part("path", PathLength(req.path)), Part("space", 1),
       Part("status", Digits(req.status)), Part("in", 4),
       Part("duration", Digits(req.duration)), Part("ms", 2) >>
    \o (IF req.json > 0
        THEN << Part("separator", 4), Part("json", req.json) >>
        ELSE << >>)

\* logLine.length
RECURSIVE LineLength(_)
LineLength(line) ==
    IF Len(line) = 0 THEN 0 ELSE Head(line).len + LineLength(Tail(line))

\* logLine.slice(0, n)
RECURSIVE Slice(_, _)
Slice(line, n) ==
    IF Len(line) = 0 \/ n = 0 THEN << >>
    ELSE IF Head(line).len <= n
         THEN << Head(line) >> \o Slice(Tail(line), n - Head(line).len)
         ELSE << [Head(line) EXCEPT !.len = n] >>

\* Lines 35-37.
Truncate(line) ==
    IF LineLength(line) > MaxLineLength
    THEN Slice(line, KeptLength) \o << Part("ellipsis", 1) >>
    ELSE line

\* The 'finish' callback, lines 27-58: the call of logApiRequest is wrapped.
FinishCallback(req) ==
    IF StartsWithApi(req.path)
    THEN /\ lastLogLine' = Truncate(LogLine(req))
         /\ lineCount' = lineCount + 1
         /\ apiCalls' = apiCalls + 1
         /\ \E lg \in LogOutcomes :
              sysLog' = IF lg = "ok" THEN sysLog \cup {"api_request"} ELSE sysLog
    ELSE UNCHANGED << logVars, sysLog >>

\* The request of the user route.
RouteRequest ==
    [method |-> "POST", path |-> [head |-> "/api", tail |-> 6], status |-> 200,
     duration |-> 5, json |-> 0]

Request ==
    /\ alive = "running"
    /\ listening = "accepting"
    /\ reqCount < MaxRequests
    /\ reqCount' = reqCount + 1
    /\ apiFinished' = apiFinished + 1
    /\ \E name \in RequestNames : RouteLookupCreate(name)
    /\ FinishCallback(RouteRequest)
    /\ UNCHANGED << escaped, inflight >>
    /\ UNCHANGED << bootVars, adminVars, srvVars, envVars, alive >>

\* The middleware runs for a request, lines 16-25 and 60: the method and
\* the path are fixed from here on.
RequestArrive ==
    /\ alive = "running"
    /\ inflight = << >>
    /\ reqCount < MaxRequests
    /\ \E m \in Methods, h \in PathHeads, t \in PathTails :
         inflight' = << [method |-> m, path |-> [head |-> h, tail |-> t]] >>
    /\ UNCHANGED << reqCount, logVars, apiFinished, memUsers, dbUsers, escaped,
                    sysLog >>
    /\ UNCHANGED << bootVars, adminVars, srvVars, envVars, alive >>

\* The response of the request in flight has been sent with some status
\* code, after some time and with or without a JSON body: 'finish' fires.
RequestFinish ==
    /\ alive = "running"
    /\ inflight # << >>
    /\ inflight' = << >>
    /\ reqCount' = reqCount + 1
    /\ apiFinished' = apiFinished + (IF inflight[1].path.head = "/api" THEN 1 ELSE 0)
    /\ \E st \in StatusCodes, d \in Durations, j \in JsonLengths :
         FinishCallback([method |-> inflight[1].method, path |-> inflight[1].path,
                         status |-> st, duration |-> d, json |-> j])
    /\ UNCHANGED << memUsers, dbUsers, escaped >>
    /\ UNCHANGED << bootVars, adminVars, srvVars, envVars, alive >>

\* The middleware alone, applied to a stream of requests.
InitRequestLog ==
    /\ Init
    /\ envUrl = "unset"
    /\ dbUsers = << >>

NextRequestLog ==
    \/ RequestArrive
    \/ RequestFinish

SpecRequestLog == InitRequestLog /\ [][NextRequestLog]_vars

SrvNext ==
    \/ SrvRoutes
    \/ SrvVite
    \/ SrvBind
    \/ Heartbeat
    \/ Signal
    \/ Request

Next ==
    \/ Main
    \/ BootImportDb1
    \/ BootDelay
    \/ BootImportDb2
    \/ BootImportSql
    \/ BootProbe
    \/ BootVmProbe
    \/ BootMigrate
    \/ BootDbInit
    \/ AdminTimerFire
    \/ AdminAfterLookup
    \/ AdminAfterCreate
    \/ AdminAfterThrow
    \/ SrvRoutes
    \/ SrvVite
    \/ SrvBind
    \/ Heartbeat
    \/ Signal
    \/ Request

Spec == Init /\ [][Next]_vars

\* The bootstrap followed by repeated invocations of the admin step, with no
\* request traffic.
NextAdminTwice ==
    \/ Main
    \/ BootImportDb1
    \/ BootDelay
    \/ BootImportDb2
    \/ BootImportSql
    \/ BootProbe
    \/ BootVmProbe
    \/ BootMigrate
    \/ BootDbInit
    \/ AdminTimerFire
    \/ AdminAfterLookup
    \/ AdminAfterCreate
    \/ AdminAfterThrow
    \/ AdminAgain

SpecAdminTwice == Init /\ [][NextAdminTwice]_vars

\* The bootstrap and the admin callback alone, every awaited call and every
\* timer of theirs eventually settling: a step that can be taken is
\* eventually taken.
NextBootstrap ==
    \/ Main
    \/ BootImportDb1
    \/ BootDelay
    \/ BootImportDb2
    \/ BootImportSql
    \/ BootProbe
    \/ BootVmProbe
    \/ BootMigrate
    \/ BootDbInit
    \/ AdminTimerFire
    \/ AdminAfterLookup
    \/ AdminAfterCreate
    \/ AdminAfterThrow

SpecBootstrapFair ==
    Init /\ [][NextBootstrap]_vars /\ WF_vars(NextBootstrap)

(***************************************************************************)
(* The server-monitoring page, src/unnamed/part_000.                       *)
(***************************************************************************)
FormShown == ~isLoading /\ (~isConfigured \/ showSettings)
DashboardShown == ~isLoading /\ isConfigured /\ ~showSettings

\* The loadConfig effect, lines 104-122.
PageLoadConfig ==
    /\ isLoading
    /\ IF savedConfig # << >>
       THEN /\ form' = savedConfig[1]
            /\ isConfigured' = TRUE
       ELSE UNCHANGED << form, isConfigured >>
    /\ isLoading' = FALSE
    /\ UNCHANGED << savedConfig, showSettings, testConnectionMutation,
                    saveConfigMutation, queryVars, serverVars, chatVars >>

\* The user changes one registered input of the form, lines 330-393.
EditForm ==
    /\ FormShown
    /\ \/ \E u \in UrlValues : form' = [form EXCEPT !.url = u]
       \/ \E u \in UsernameValues : form' = [form EXCEPT !.username = u]
       \/ \E pw \in PasswordValues : form' = [form EXCEPT !.password = pw]
       \/ \E n \in IntervalValues : form' = [form EXCEPT !.refreshInterval = n]
       \/ \E b \in BOOLEAN : form' = [form EXCEPT !.autoRefresh = b]
    /\ form' # form
    /\ UNCHANGED << savedConfig, isConfigured, showSettings, isLoading,
                    testConnectionMutation, saveConfigMutation, queryVars,
                    serverVars, chatVars >>

\* The Settings buttons, lines 443, 462, 507 and 531.
OpenSettings ==
    /\ DashboardShown
    /\ showSettings' = TRUE
    /\ UNCHANGED << form, savedConfig, isConfigured, isLoading,
                    testConnectionMutation, saveConfigMutation, queryVars,
                    serverVars, chatVars >>

\* The Cancel button, lines 308-312: the form is not reset.
CancelSettings ==
    /\ FormShown
    /\ isConfigured
    /\ showSettings' = FALSE
    /\ UNCHANGED << form, savedConfig, isConfigured, isLoading,
                    testConnectionMutation, saveConfigMutation, queryVars,
                    serverVars, chatVars >>

\* The Test Connection button, lines 399-405: the mutation is started with
\* form.getValues(); the button is disabled while a test is pending.
TestConnectionClick ==
    /\ FormShown
    /\ testConnectionMutation = << >>
    /\ testConnectionMutation' = << form >>
    /\ UNCHANGED << form, savedConfig, isConfigured, showSettings, isLoading,
                    saveConfigMutation, queryVars, serverVars, chatVars >>

\* The response to a test, lines 124-154: a toast in either case.
TestResponses == {"ok", "notOk", "networkError"}

TestConnectionSettle ==
    /\ testConnectionMutation # << >>
    /\ \E o \in TestResponses : testConnectionMutation' = << >>
    /\ UNCHANGED << form, savedConfig, isConfigured, showSettings, isLoading,
                    saveConfigMutation, queryVars, serverVars, chatVars >>

\* form.handleSubmit(handleSubmit), lines 249-251 and 326: the resolver
\* validates the values against the schema and handleSubmit starts the save
\* mutation with them; the button is disabled while a save is pending.
SaveSubmit ==
    /\ FormShown
    /\ saveConfigMutation.status # "pending"
    /\ SchemaAccepts(form)
    /\ saveConfigMutation' = [status |-> "pending", variables |-> << form >>]
    /\ UNCHANGED << form, savedConfig, isConfigured, showSettings, isLoading,
                    testConnectionMutation, queryVars, serverVars, chatVars >>

\* Variant of SaveSettle: the configuration is written to local storage
\* whatever the response to the connectivity test.
SaveSettle_PersistAlways ==
    /\ saveConfigMutation.status = "pending"
    /\ savedConfig' = saveConfigMutation.variables
    /\ \E o \in TestResponses :
         IF o = "ok"
         THEN /\ isConfigured' = TRUE
              /\ showSettings' = FALSE
              /\ saveConfigMutation' = [status |-> "success", variables |-> << >>]
         ELSE /\ saveConfigMutation' = [status |-> "error", variables |-> << >>]
              /\ UNCHANGED << isConfigured, showSettings >>
    /\ UNCHANGED << form, isLoading, testConnectionMutation, queryVars, serverVars, chatVars >>

\* The response to the connectivity test of the save mutation, lines
\* 156-193.  On an OK response the configuration is written to local
\* storage, then onSuccess sets the two flags and invalidates the metrics
\* query, which refetches when it is enabled and has fetched before.
SaveSettle ==
    /\ saveConfigMutation.status = "pending"
    /\ \E o \in TestResponses :
         IF o = "ok"
         THEN /\ savedConfig' = saveConfigMutation.variables
              /\ isConfigured' = TRUE
              /\ showSettings' = FALSE
              /\ saveConfigMutation' = [status |-> "success", variables |-> << >>]
              /\ IF isConfigured /\ queryPc # "idle"
                 THEN /\ queryPc' = "fetching"
                      /\ failureCount' = 0
                      /\ fetchError' = << >>
                 ELSE UNCHANGED queryVars
         ELSE /\ saveConfigMutation' = [status |-> "error", variables |-> << >>]
              /\ UNCHANGED << savedConfig, isConfigured, showSettings, queryVars >>
    /\ UNCHANGED << form, isLoading, testConnectionMutation, serverVars, chatVars >>

\* refetchInterval, line 237: the live values of the form; 0 stands for
\* false (no polling).
RefetchInterval ==
    IF form.autoRefresh THEN form.refreshInterval * 1000 ELSE 0

\* A fetch of the metrics query starts: when the query becomes enabled
\* (line 236), when the polling timer fires (line 237), or when the user
\* presses a refresh button of the dashboard (lines 466, 492, 535).
QueryFetch ==
    /\ \/ isConfigured /\ queryPc = "idle"
       \/ isConfigured /\ queryPc \in {"success", "error"} /\ RefetchInterval > 0
       \/ DashboardShown /\ queryPc \in {"success", "error"}
    /\ queryPc' = "fetching"
    /\ failureCount' = 0
    /\ fetchError' = << >>
    /\ UNCHANGED << formVars, serverVars, chatVars >>

\* Error messages as sequences of words; << >> stands for no error.
Incomplete == << "Zabbix", "configuration", "is", "incomplete" >>
ErrorMessages ==
    {<< "Authentication", "failed" >>, << "HTTP", "401", "Unauthorized" >>,
     << "Failed", "to", "fetch" >>}
Includes(message, word) == \E i \in 1..Len(message) : message[i] = word

MaxFailureCount == 3

\* Variant of Retry: the message of the error is not looked at.
Retry_AnyError(count, error) == count < MaxFailureCount

\* retry, lines 238-244.
Retry(count, error) ==
    IF Includes(error, "Authentication") \/ Includes(error, "401")
    THEN FALSE
    ELSE count < MaxFailureCount

\* queryFn settles, lines 198-235: it throws when the saved configuration
\* is incomplete or the response is not usable.  On a failure the query
\* asks retry(failureCount, error), with the count of the failures before
\* this one; it surfaces the error when the answer is false and otherwise
\* counts the failure and waits for retryDelay.
QueryFnSettle ==
    /\ queryPc = "fetching"
    /\ \E r \in {<< >>} \cup ErrorMessages :
         LET complete == /\ savedConfig # << >>
                         /\ savedConfig[1].url # ""
                         /\ savedConfig[1].username # ""
                         /\ savedConfig[1].password # ""
             error == IF complete THEN r ELSE Incomplete
         IN  IF error = << >>
             THEN /\ queryPc' = "success"
                  /\ failureCount' = 0
                  /\ fetchError' = << >>
             ELSE /\ fetchError' = error
                  /\ IF Retry(failureCount, error)
                     THEN /\ queryPc' = "retryWait"
                          /\ failureCount' = failureCount + 1
                     ELSE /\ queryPc' = "error"
                          /\ UNCHANGED failureCount
    /\ UNCHANGED << formVars, serverVars, chatVars >>

\* The retry delay has elapsed: queryFn is called again.
QueryRetry ==
    /\ queryPc = "retryWait"
    /\ queryPc' = "fetching"
    /\ UNCHANGED << failureCount, fetchError, formVars, serverVars, chatVars >>

\* The configuration form and its two mutations, the metrics query left
\* aside.
NextConfigForm ==
    \/ PageLoadConfig
    \/ EditForm
    \/ OpenSettings
    \/ CancelSettings
    \/ TestConnectionClick
    \/ TestConnectionSettle
    \/ SaveSubmit
    \/ SaveSettle

SpecConfigForm == InitMonitor /\ [][NextConfigForm]_vars

\* The metrics query with the form and the save mutation, the standalone
\* connection test left aside.
NextMetricsQuery ==
    \/ PageLoadConfig
    \/ EditForm
    \/ OpenSettings
    \/ CancelSettings
    \/ SaveSubmit
    \/ SaveSettle
    \/ QueryFetch
    \/ QueryFnSettle
    \/ QueryRetry

SpecMetricsQuery == InitMonitor /\ [][NextMetricsQuery]_vars

(***************************************************************************)
(* The floating chat widget: state, effects and render of                  *)
(* floating-chat.tsx.  A state update and the commit of the render it      *)
(* causes are one step; the effect of lines 47-64 runs after the commit    *)
(* and before the next update.                                             *)
(***************************************************************************)

\* The three conditional blocks of the render, lines 73, 86 and 108.
ButtonShown == ~isOpen
ChatOverlayShown == isOpen /\ isLoaded
LoadingShown == isOpen /\ ~isLoaded

\* The container div of lines 98-102 after a commit: it exists while the
\* block of line 86 is rendered and keeps its children across re-renders.
Commit(open, loaded, container) ==
    IF open /\ loaded
    THEN IF container = << >> THEN << << >> >> ELSE container
    ELSE << >>

\* The element built by lines 53-60.
AgentChat(props) ==
    [window_title |-> props.windowTitle, width |-> props.width,
     height |-> props.height, start_open |-> "true"]

AgentChatCount == IF chatContainer = << >> THEN 0 ELSE Len(chatContainer[1])

\* The effects of the first commit: the script element is appended to the
\* head, lines 29-37; the effect of lines 47-64 finds isLoaded false.
ChatMount ==
    /\ scriptPc = "none"
    /\ scriptPc' = "loading"
    /\ UNCHANGED << chatProps, isOpen, isLoaded, chatContainer, effectPending >>
    /\ UNCHANGED << serverVars, pageVars >>

\* script.onload, lines 34-36: setIsLoaded(true) and the re-render.
ScriptOnLoad ==
    /\ scriptPc = "loading"
    /\ ~effectPending
    /\ scriptPc' = "loaded"
    /\ isLoaded' = TRUE
    /\ chatContainer' = Commit(isOpen, TRUE, chatContainer)
    /\ effectPending' = TRUE
    /\ UNCHANGED << chatProps, isOpen >>
    /\ UNCHANGED << serverVars, pageVars >>

\* The script fails to load: no onerror handler is set.
ScriptError ==
    /\ scriptPc = "loading"
    /\ scriptPc' = "failed"
    /\ UNCHANGED << chatProps, isOpen, isLoaded, chatContainer, effectPending >>
    /\ UNCHANGED << serverVars, pageVars >>

\* toggleChat, lines 66-68, from the button of line 76 or of line 91; the
\* loading overlay has no button.
ToggleChat ==
    /\ scriptPc # "none"
    /\ ~effectPending
    /\ ButtonShown \/ ChatOverlayShown
    /\ isOpen' = ~isOpen
    /\ chatContainer' = Commit(~isOpen, isLoaded, chatContainer)
    /\ effectPending' = TRUE
    /\ UNCHANGED << chatProps, isLoaded, scriptPc >>
    /\ UNCHANGED << serverVars, pageVars >>

\* The parent renders the widget with other props: a dependency of the
\* effect has changed, line 64.  startOpen is read by useState on the first
\* render only and stays as it was.
PropsChange ==
    /\ scriptPc # "none"
    /\ ~effectPending
    /\ \E p \in PropValues \ {chatProps} :
         /\ p.startOpen = chatProps.startOpen
         /\ chatProps' = p
    /\ effectPending' = TRUE
    /\ UNCHANGED << isOpen, isLoaded, scriptPc, chatContainer >>
    /\ UNCHANGED << serverVars, pageVars >>

\* Variant of ChatEffect: the container is not cleared before the element
\* is appended.
ChatEffect_NoClear ==
    /\ effectPending
    /\ effectPending' = FALSE
    /\ IF isLoaded /\ isOpen /\ chatContainer # << >>
       THEN chatContainer' = << Append(chatContainer[1], AgentChat(chatProps)) >>
       ELSE UNCHANGED chatContainer
    /\ UNCHANGED << chatProps, isOpen, isLoaded, scriptPc >>
    /\ UNCHANGED << serverVars, pageVars >>

\* The effect of lines 47-64.
ChatEffect ==
    /\ effectPending
    /\ effectPending' = FALSE
    /\ IF isLoaded /\ isOpen /\ chatContainer # << >>
       THEN chatContainer' = << << AgentChat(chatProps) >> >>
       ELSE UNCHANGED chatContainer
    /\ UNCHANGED << chatProps, isOpen, isLoaded, scriptPc >>
    /\ UNCHANGED << serverVars, pageVars >>

\* The widget alone.
InitFloatingChat ==
    /\ ServerInit
    /\ envUrl = "unset"
    /\ ~loggerThrows
    /\ dbUsers = << >>
    /\ PageInit
    /\ savedConfig = << >>
    /\ ChatInit

NextFloatingChat ==
    \/ ChatMount
    \/ ScriptOnLoad
    \/ ScriptError
    \/ ToggleChat
    \/ PropsChange
    \/ ChatEffect

SpecFloatingChat == InitFloatingChat /\ [][NextFloatingChat]_vars

TypeOK ==
    /\ bootPc \in {"notStarted", "import1", "delay", "import2", "importSql", "probe", "vmProbe",
                   "migrate", "dbinit", "done", "rejected"}
    /\ adminPc \in {"idle", "scheduled", "lookupOk", "lookupThrew", "createOk",
                    "createThrew", "done", "failed"}
    /\ srvPc \in {"notStarted", "routes", "vite", "running", "startFailed"}
    /\ listening \in {"idle", "binding", "accepting", "bindFailed"}
    /\ binding \in [StorageOps -> {"mem", "db"}]
    /\ usingDatabase \in BOOLEAN
    /\ reqCount \in 0..MaxRequests
    /\ lineCount \in 0..MaxRequests
    /\ apiCalls \in 0..MaxRequests
    /\ apiFinished \in 0..MaxRequests
    /\ Len(inflight) <= 1
    /\ LineLength(lastLogLine) <= MaxLineLength
    /\ alive \in {"running", "crashed", "killed"}
    /\ testResult \in {"undefined", "rows", "norows", "nullresult"}
    /\ form \in FormValues
    /\ Len(savedConfig) <= 1
    /\ queryPc \in {"idle", "fetching", "retryWait", "success", "error"}
    /\ failureCount \in 0..MaxFailureCount
    /\ chatProps \in PropValues
    /\ isOpen \in BOOLEAN
    /\ isLoaded \in BOOLEAN
    /\ scriptPc \in {"none", "loading", "loaded", "failed"}
    /\ Len(chatContainer) <= 1
    /\ effectPending \in BOOLEAN

(***************************************************************************)
(* Claims.                                                                 *)
(***************************************************************************)
Selected == bootPc \in {"migrate", "dbinit", "done"}
Uniform(b) == \A op1 \in StorageOps, op2 \in StorageOps : b[op1] = b[op2]
AllBound(b, backend) == \A op \in StorageOps : b[op] = backend

\* C1: once backend selection has run, the migration runner has been called
\* if and only if at least one of the three connection signals is true, the
\* connection target is a non-empty string and the handle exists; before
\* selection it has not been called, and when it is never called the handle
\* stays on the in-memory backend.
C1_DurableIffSignals ==
    /\ Selected =>
         (Issued("runMigrations") <=>
            /\ freshConnectionStatus \/ databaseConnected \/ actualConnectionVerified
            /\ envUrl = "postgres://db"
            /\ freshDb = "handle")
    /\ ~Selected => ~Issued("runMigrations")
    /\ ~Issued("runMigrations") => AllBound(binding, "mem") /\ ~usingDatabase

C1_Witness ==
    /\ bootPc = "done"
    /\ Issued("runMigrations")
    /\ actualConnectionVerified /\ ~freshConnectionStatus /\ ~databaseConnected

\* C2: when the migration runner has failed and the bootstrap has completed,
\* every operation of the handle is bound to the in-memory backend,
\* usingDatabase is false, and neither initializeDatabase nor the
\* DatabaseStorage constructor was called.
C2_MigrationFailureKeepsMemory ==
    ("runMigrations" \in failed /\ bootPc = "done") =>
        /\ AllBound(binding, "mem")
        /\ ~usingDatabase
        /\ ~Issued("initializeDatabase")
        /\ ~Issued("DatabaseStorage")

C2_Witness ==
    /\ "runMigrations" \in failed
    /\ bootPc = "done"
    /\ adminPc = "done"

\* C3 (as claimed): when initializeDatabase, the constructor or the rebinding
\* loop has failed, every operation of the handle is still bound to the
\* in-memory backend.
C3_NoPartialRebind ==
    (bootPc = "done" /\ failed \cap {"initializeDatabase", "DatabaseStorage", "rebind"} # {})
        => AllBound(binding, "mem")

C5_SingleBackend == Uniform(binding)

\* C6 (as claimed): whenever the listener accepts connections the bootstrap
\* has completed.
C6_BootstrapBeforeListener == listening = "accepting" => bootPc = "done"

\* C6 (amended): the bootstrap is started before startServer is called and
\* each of its external steps and the admin callback is issued at most once;
\* the listener is not held back until the bootstrap has completed.
C6_StartedOnceNotAwaited ==
    /\ srvPc # "notStarted" => bootPc # "notStarted"
    /\ \A call \in {"probe", "vmProbe", "runMigrations", "initializeDatabase",
                    "DatabaseStorage"} : TimesIssued(call) <= 1
    /\ adminRuns <= 1

C6_Witness ==
    /\ listening = "accepting"
    /\ bootPc = "delay"

\* C7 (as claimed): a throwing logger changes no outcome: startup fails only
\* when route registration, the Vite setup or the static setup failed, and no
\* error escapes the admin callback or a signal handler.
C7_LoggerFailureHarmless ==
    /\ srvPc = "startFailed" =>
          failed \cap {"registerRoutes", "setupVite", "serveStatic"} # {}
    /\ "adminStep" \notin escaped
    /\ "signal" \notin escaped

\* C8 (as claimed): no failure of an external call of the bootstrap ends the
\* bootstrap with an unhandled rejection.
C8_FailuresCaught ==
    /\ bootPc # "rejected"
    /\ "bootstrap" \notin escaped

IsPrefix(s, t) == Len(s) <= Len(t) /\ \A i \in 1..Len(s) : t[i] = s[i]

C9_State ==
    /\ adminPc \in {"createOk", "createThrew"} => ~adminExists
    /\ Uniform(binding) =>
          /\ CountUsers(memUsers, "admin") <= 1
          /\ CountUsers(dbUsers, "admin") <= 1
    /\ (/\ Uniform(binding)
        /\ adminRuns >= 2
        /\ adminPc = "done"
        /\ failed \cap {"getUserByUsername", "createUser"} = {})
          => CountUsers(Store(binding["createUser"]), "admin") = 1

\* C9: with the handle bound to one backend, the admin callback calls
\* createUser only after a lookup that reported absence, no backend ever
\* holds two "admin" accounts, two finished invocations whose storage calls
\* returned leave exactly one, and no step removes or changes a stored record.
C9_AdminIdempotent ==
    /\ []C9_State
    /\ [][IsPrefix(memUsers, memUsers') /\ IsPrefix(dbUsers, dbUsers')]_vars

C9_Witness ==
    /\ adminRuns = 2
    /\ adminPc = "done"
    /\ TimesIssued("createUser") = 1
    /\ TimesIssued("getUserByUsername") = 2
    /\ failed = {}
    /\ CountUsers(Store(binding["createUser"]), "admin") = 1

\* C10: when the lookup reported absence and createUser returned, the record
\* passed to createUser and stored by the backend has username "admin",
\* isAdmin true and a permission matrix over exactly the eleven categories
\* with view, edit and add all true.
C10_Record(r) ==
    /\ r.username = "admin"
    /\ r.isAdmin = TRUE
    /\ DOMAIN r.permissions =
          {"assets", "components", "accessories", "consumables", "licenses",
           "users", "reports", "vmMonitoring", "networkDiscovery",
           "bitlockerKeys", "admin"}
    /\ \A c \in DOMAIN r.permissions :
          /\ DOMAIN r.permissions[c] = {"view", "edit", "add"}
          /\ r.permissions[c].view /\ r.permissions[c].edit /\ r.permissions[c].add

C10_AdminRecord ==
    adminPc = "createOk" =>
        /\ Len(adminCreateArg) = 1
        /\ C10_Record(adminCreateArg[1])
        /\ LET st == Store(binding["createUser"])
           IN  \E i \in 1..Len(st) : st[i] = adminCreateArg[1]

C10_Witness ==
    /\ adminPc = "createOk"
    /\ binding["createUser"] = "db"
    /\ ~adminExists

\* C11 (as claimed): with a working logger, when route registration, the
\* middleware setup or the binding of the port has failed, startup has been
\* terminated with a critical entry of origin 'startup', and the process is
\* not running as if startup had succeeded.
C11_StartupFailureFatal ==
    (/\ ~loggerThrows
     /\ \/ failed \cap {"registerRoutes", "setupVite", "serveStatic"} # {}
        \/ listening = "bindFailed")
        => /\ srvPc = "startFailed"
           /\ "critical:startup" \in sysLog
           /\ ~(alive = "running" /\ heartbeat)

\* C12 (as claimed): once the module body has run, whenever a termination
\* signal has been delivered a 'shutdown' entry has been logged and the
\* heartbeat timer is cancelled.
C12_SignalLoggedHeartbeatCancelled ==
    (/\ srvPc # "notStarted"
     /\ \/ alive = "killed"
        \/ "signal" \in escaped
        \/ "shutdown" \in sysLog)
        => /\ "shutdown" \in sysLog
           /\ ~heartbeat

\* C13 (as claimed): with a working logger, every error that escaped has
\* been logged as a critical entry tagged with its origin ('promise' for a
\* rejection, 'process' for an exception), and the process is still running.
C13_UncaughtLoggedCritical ==
    ~loggerThrows =>
        /\ "bootstrap" \in escaped =>
              "critical:promise" \in sysLog /\ alive = "running"
        /\ "listen" \in escaped =>
              "critical:process" \in sysLog /\ alive = "running"

\* C14 (as claimed): the body of every request to the test-connection
\* endpoint, whether started by Test Connection or by Save Configuration &
\* Connect, satisfies the configuration schema.
C14_ValidatedBeforeRequest ==
    /\ \A i \in 1..Len(testConnectionMutation) :
          SchemaAccepts(testConnectionMutation[i])
    /\ \A i \in 1..Len(saveConfigMutation.variables) :
          SchemaAccepts(saveConfigMutation.variables[i])

\* C15: the stored configuration changes only in the step in which a pending
\* save mutation succeeds, and then becomes the configuration that was
\* tested; when the save mutation fails, the stored configuration, the
\* configured flag and the settings flag are unchanged; no step of the
\* standalone connection test changes the stored configuration.
C15_PersistOnlyAfterTest ==
    [][/\ savedConfig' # savedConfig =>
            /\ saveConfigMutation.status = "pending"
            /\ saveConfigMutation'.status = "success"
            /\ savedConfig' = saveConfigMutation.variables
       /\ (saveConfigMutation.status = "pending" /\ saveConfigMutation'.status = "error") =>
            UNCHANGED << savedConfig, isConfigured, showSettings >>
       /\ testConnectionMutation' # testConnectionMutation =>
            UNCHANGED << savedConfig, isConfigured, showSettings >>]_vars

C15_Witness ==
    /\ saveConfigMutation.status = "success"
    /\ savedConfig = << form >>
    /\ form.refreshInterval = 300
    /\ ~form.autoRefresh
    /\ isConfigured
    /\ ~showSettings

\* C16: a failed fetch is never retried after an error whose message
\* contains "Authentication" or "401"; after any other error it is retried
\* until three retries have been made, so such an error is surfaced only
\* after exactly three retries (four attempts), and no fetch is retried more
\* than three times.
C16_AuthError ==
    Includes(fetchError, "Authentication") \/ Includes(fetchError, "401")

C16_RetryPolicy ==
    /\ failureCount <= 3
    /\ queryPc = "retryWait" => ~C16_AuthError /\ failureCount >= 1
    /\ queryPc = "error" => C16_AuthError \/ failureCount = 3
    /\ queryPc \in {"retryWait", "error"} => fetchError # << >>

C16_Witness ==
    /\ queryPc = "error"
    /\ fetchError = << "Failed", "to", "fetch" >>
    /\ failureCount = 3

\* C17 (as claimed): no fetch has started while the page is not configured,
\* and while the dashboard is shown with auto-refresh enabled in the saved
\* configuration and left enabled in the form, the polling interval is the
\* refresh interval of the saved configuration.
C17_PollingFollowsSavedConfig ==
    /\ queryPc # "idle" => isConfigured
    /\ (/\ DashboardShown
        /\ savedConfig # << >>
        /\ form.autoRefresh) =>
          (savedConfig[1].autoRefresh =>
              RefetchInterval = savedConfig[1].refreshInterval * 1000)

C20_ProbeGuardAndVerdict ==
    /\ Issued("probe") => envUrl = "postgres://db" /\ freshDb = "handle"
    /\ testResult # "undefined" => Issued("probe")
    /\ actualConnectionVerified <=> testResult = "rows"
    /\ "probe" \in failed => ~actualConnectionVerified
    /\ actualConnectionVerified => envUrl = "postgres://db" /\ freshDb = "handle"

C20_Witness ==
    /\ bootPc = "done"
    /\ testResult = "norows"
    /\ ~actualConnectionVerified
    /\ Issued("probe")
    /\ ~Issued("vmProbe")

\* C21: whatever the table probe answers, the step in which it settles leaves
\* the directly-verified signal and the other signals unchanged, records no
\* failure, lets no error escape and goes on to the migration; and once it
\* has settled, either way, the signal is still true and the durable path
\* has been selected.
C21_TableProbeSettled ==
    vmTable # "none" =>
        /\ actualConnectionVerified
        /\ Issued("runMigrations")
        /\ bootPc \in {"migrate", "dbinit", "done"}

C21_TableProbeNeverGates ==
    /\ []C21_TableProbeSettled
    /\ [][(bootPc = "vmProbe" /\ vmTable' # vmTable) =>
            /\ bootPc' = "migrate"
            /\ UNCHANGED << actualConnectionVerified, freshConnectionStatus,
                            databaseConnected, freshDb, failed, escaped,
                            usingDatabase, binding, alive >>]_vars

C21_Witness ==
    /\ vmTable = "throws"
    /\ bootPc = "done"
    /\ usingDatabase
    /\ actualConnectionVerified
    /\ ~freshConnectionStatus
    /\ ~databaseConnected

\* C22 (as claimed): the middleware has written one local line and made one
\* external call for each finished request whose path starts with /api and
\* none for the others; the last local line has at most 80 characters and
\* holds the method, the path, the status code and the duration in full.
C22_Holds(line, name) ==
    \E i \in 1..Len(line) : line[i].part = name /\ line[i].len = line[i].full

C22_ApiRequestLogged ==
    /\ lineCount = apiFinished
    /\ apiCalls = apiFinished
    /\ LineLength(lastLogLine) <= 80
    /\ lineCount > 0 =>
          \A name \in {"method", "path", "status", "duration"} :
              C22_Holds(lastLogLine, name)

\* C23 (as claimed): when every awaited call and every timer of the
\* bootstrap eventually settles, the admin callback eventually finishes.
C23_BootstrapReachesAdminStep == <>(adminPc \in {"done", "failed"})

\* C24 (as claimed): after backend selection the usingDatabase flag tells
\* which backend every operation of the handle is bound to, and the storage
\* kind printed by the admin callback names the backend that served its
\* lookup and its creation.
C24_FlagNamesBackend ==
    bootPc = "done" =>
        /\ usingDatabase => AllBound(binding, "db")
        /\ ~usingDatabase => AllBound(binding, "mem")
        /\ adminLabel = "database" => adminServedBy \subseteq {"db"}
        /\ adminLabel = "memory" => adminServedBy \subseteq {"mem"}

\* C25: while the bootstrap is pending the handle is bound to the in-memory
\* backend and a request writes only there; once the rebinding has
\* completed the handle reads and writes only the durable backend, and the
\* swap copies nothing: a name held only by the in-memory backend before
\* the swap is not returned by the handle after it.
HandleReturns(name) == GetUserByUsername(Store(binding["getUserByUsername"]), name)

C25_NoCarryOver ==
    /\ [](bootPc # "done" => binding = MemBinding)
    /\ [](usingDatabase =>
            /\ AllBound(binding, "db")
            /\ \A n \in RequestNames :
                   HandleReturns(n) <=> GetUserByUsername(dbUsers, n))
    /\ [][reqCount' # reqCount =>
            /\ bootPc # "done" => dbUsers' = dbUsers
            /\ usingDatabase => memUsers' = memUsers]_vars
    /\ [][(bootPc = "dbinit" /\ usingDatabase') =>
            /\ UNCHANGED << memUsers, dbUsers >>
            /\ \A n \in RequestNames :
                   (GetUserByUsername(memUsers, n) /\ ~GetUserByUsername(dbUsers, n))
                       => ~HandleReturns(n)']_vars

C25_Witness ==
    /\ usingDatabase
    /\ reqCount > 0
    /\ GetUserByUsername(memUsers, "bob")
    /\ ~GetUserByUsername(dbUsers, "bob")
    /\ ~HandleReturns("bob")

\* C26 (as claimed): whatever requests interleave with the admin callback,
\* the callback calls createUser at most once and the backend the handle is
\* bound to never holds two accounts named "admin".
C26_NoSecondAdmin ==
    /\ TimesIssued("createUser") <= 1
    /\ Uniform(binding) =>
           CountUsers(Store(binding["createUser"]), "admin") <= 1

\* C27: the widget shows exactly one of its three views and the container
\* exists exactly while the chat overlay is shown; isLoaded never returns
\* to false; an agent-chat element exists only while the widget is open and
\* loaded, and the container never holds more than one.
C27_OneViewOneElement ==
    /\ [](/\ ButtonShown \/ LoadingShown \/ ChatOverlayShown
          /\ ~(ButtonShown /\ LoadingShown)
          /\ ~(ButtonShown /\ ChatOverlayShown)
          /\ ~(LoadingShown /\ ChatOverlayShown)
          /\ chatContainer # << >> <=> ChatOverlayShown
          /\ AgentChatCount > 0 => isOpen /\ isLoaded
          /\ AgentChatCount <= 1)
    /\ [][isLoaded => isLoaded']_vars

C27_Witness ==
    /\ ~chatProps.startOpen
    /\ chatProps.width = "320"
    /\ isOpen /\ isLoaded /\ ~effectPending
    /\ chatContainer = << << AgentChat(chatProps) >> >>

====
